---- MODULE Spec2Model ----
(***************************************************************************)
(* The directus_comments migration: up() moves the comments embedded in    *)
(* directus_activity into the directus_comments table and leaves a         *)
(* cross-reference behind; down() reconciles every comment row back into   *)
(* directus_activity and drops the table.                                   *)
(***************************************************************************)
EXTENDS Integers, Sequences, FiniteSets, TLC

(* ---------- bounds of the model ---------- *)

\* largest number of directus_activity rows before up() runs, and of directus_comments
\* rows before down() runs
MaxRows == 2

\* largest number of re-invocations of up(), and of down(), after an interruption or error
MaxRetries == 1

\* largest number of writes of other clients while down() runs
MaxClientWrites == 1

(* ---------- program constants and value domains ---------- *)

\* processChunk(comments, 100, ...)
ChunkSize == 100

NULL == "<null>"
CREATE == "create"
COMMENT == "comment"
CommentsTable == "directus_comments"

Collections == {"articles"}
Items == {"42", "43"}
Texts == {"x", "y"}
Users == {"u1", "u2"}
Times == {1}

\* randomUUID(): successive calls return successive values of a stream of distinct ids
UUIDs == <<"uuid-1", "uuid-2", "uuid-3", "uuid-4", "uuid-5", "uuid-6", "uuid-7", "uuid-8">>

randomUUID(calls) == UUIDs[calls + 1]

VARIABLES
    directus_activity,   \* committed rows of table directus_activity
    directus_comments,   \* committed rows of table directus_comments
    tableExists,         \* whether table directus_comments exists
    pc,                  \* position of the migration runner
    comments,            \* the local `comments` of up() / down(): the rows selected
    pos,                 \* 1-based position of the row the loops are at
    migratedRecords,     \* the local `migratedRecords` of down(): ids the search returned
    unmigratedRecords,   \* the local `unmigratedRecords` of down(): ids the search returned
    activitySeq,         \* the last id the id sequence of directus_activity gave out
    trx,                 \* rows inserted by the open transaction, not yet committed
    uuidCalls,           \* calls of randomUUID() so far
    error,               \* the last error thrown so far
    upRuns,              \* invocations of up() so far
    downRuns,            \* invocations of down() so far
    natives,             \* ids of the comments the live application created
    original,            \* history: directus_activity before the first up()
    failedId,            \* history: activity id whose transaction failed in up(), 0 if none
    reconciled,          \* history: the comments the current down() has reconciled, and how
    clientWrites         \* history: writes of other clients while down() ran

vars == <<directus_activity, directus_comments, tableExists, pc, comments, pos,
          migratedRecords, unmigratedRecords, activitySeq, trx, uuidCalls, error, upRuns, downRuns,
          natives, original, failedId, reconciled, clientWrites>>

(* ---------- helpers ---------- *)

Ids(rows) == {r.id : r \in rows}

Max(S) == CHOOSE m \in S : \A x \in S : x <= m

\* the id the database gives an inserted directus_activity row: the next of the table's
\* sequence, never an id given before
NextActivityId(seq) == seq + 1

Min(S) == CHOOSE m \in S : \A x \in S : m <= x

Range(s) == {s[i] : i \in 1..Len(s)}

\* .orderBy('id')
RECURSIVE OrderById(_)
OrderById(rows) ==
    IF rows = {} THEN <<>>
    ELSE LET first == CHOOSE r \in rows : r.id = Min(Ids(rows))
         IN <<first>> \o OrderById(rows \ {first})

\* the orders in which a select without orderBy can return the rows
Orderings(rows) ==
    {s \in [1..Cardinality(rows) -> rows] : \A r \in rows : \E i \in DOMAIN s : s[i] = r}

\* processChunk(arr, size, callback): the chunks the callback is called with, in order
RECURSIVE processChunk(_, _)
processChunk(arr, size) ==
    IF Len(arr) = 0 THEN <<>>
    ELSE IF Len(arr) <= size THEN <<arr>>
    ELSE <<SubSeq(arr, 1, size)>> \o processChunk(SubSeq(arr, size + 1, Len(arr)), size)

\* the row the nested loops (chunk by chunk, row by row) are at on their p-th iteration
RowAt(arr, p) ==
    processChunk(arr, ChunkSize)[((p - 1) \div ChunkSize) + 1][((p - 1) % ChunkSize) + 1]

LoopFinished == pos > Len(comments)


(* ---------- up() ---------- *)

\* .select('id','collection','item','comment','user','timestamp')
\*   .from('directus_activity').whereNotNull('comment')
SelectNoFilter(activity) ==
    {[id |-> a.id, collection |-> a.collection, item |-> a.item, comment |-> a.comment,
      user |-> a.user, timestamp |-> a.timestamp] : a \in activity}

SelectActivityComments(activity) ==
    {[id |-> a.id, collection |-> a.collection, item |-> a.item, comment |-> a.comment,
      user |-> a.user, timestamp |-> a.timestamp] : a \in {b \in activity : b.comment # NULL}}

\* the row inserted into directus_comments
NewCommentNoUser(comment, newCommentId) ==
    [id |-> newCommentId, collection |-> comment.collection, item |-> comment.item,
     comment |-> comment.comment, user_created |-> NULL, date_created |-> comment.timestamp]

NewComment(comment, newCommentId) ==
    [id |-> newCommentId, collection |-> comment.collection, item |-> comment.item,
     comment |-> comment.comment, user_created |-> comment.user,
     date_created |-> comment.timestamp]

\* directus_activity after .update({action, collection, item, comment}).where('id', '=', id)
UpdateToCrossReference(activity, id, newCommentId) ==
    {IF a.id = id
        THEN [a EXCEPT !.action = CREATE, !.collection = CommentsTable,
                       !.item = newCommentId, !.comment = NULL]
        ELSE a : a \in activity}

\* knex.schema.createTable('directus_comments', ...): throws when the table exists
UpCreateTable ==
    /\ pc \in {"idle", "up_interrupted", "up_error"}
    /\ upRuns <= MaxRetries
    /\ upRuns' = upRuns + 1
    /\ IF tableExists
          THEN /\ pc' = "up_error"
               /\ error' = "schema"
               /\ UNCHANGED tableExists
          ELSE /\ pc' = "up_select"
               /\ UNCHANGED error
               /\ tableExists' = TRUE
    /\ comments' = <<>>
    /\ pos' = 1
    /\ UNCHANGED <<activitySeq, migratedRecords, unmigratedRecords, clientWrites, uuidCalls, directus_activity, directus_comments, trx, downRuns, natives, original,
                   failedId, reconciled>>

UpSelect ==
    /\ pc = "up_select"
    /\ comments' = OrderById(SelectActivityComments(directus_activity))
    /\ pos' = 1
    /\ pc' = "up_loop"
    /\ UNCHANGED <<activitySeq, migratedRecords, unmigratedRecords, clientWrites, uuidCalls, directus_activity, directus_comments, tableExists, trx, error, upRuns,
                   downRuns, natives, original, failedId, reconciled>>

\* the insert writes straight to the table instead of into the transaction
UpInsertOutsideTransaction ==
    /\ pc = "up_loop"
    /\ ~LoopFinished
    /\ LET newCommentId == randomUUID(uuidCalls)
       IN /\ trx' = {NewComment(RowAt(comments, pos), newCommentId)}
          /\ directus_comments' =
                directus_comments \cup {NewComment(RowAt(comments, pos), newCommentId)}
    /\ uuidCalls' = uuidCalls + 1
    /\ pc' = "up_update"
    /\ UNCHANGED <<activitySeq, migratedRecords, unmigratedRecords, clientWrites, directus_activity, tableExists, comments, pos, error, upRuns,
                   downRuns, natives, original, failedId, reconciled>>

\* knex.transaction begins; randomUUID(); trx('directus_comments').insert(...)
UpInsert ==
    /\ pc = "up_loop"
    /\ ~LoopFinished
    /\ LET newCommentId == randomUUID(uuidCalls)
       IN trx' = {NewComment(RowAt(comments, pos), newCommentId)}
    /\ uuidCalls' = uuidCalls + 1
    /\ pc' = "up_update"
    /\ UNCHANGED <<activitySeq, migratedRecords, unmigratedRecords, clientWrites, directus_activity, directus_comments, tableExists, comments, pos, error,
                   upRuns, downRuns, natives, original, failedId, reconciled>>

\* trx('directus_activity').update(...).where('id', '=', comment.id); the transaction commits
UpUpdate ==
    /\ pc = "up_update"
    /\ directus_comments' = directus_comments \cup trx
    /\ directus_activity' =
          UpdateToCrossReference(directus_activity, RowAt(comments, pos).id,
                                 (CHOOSE c \in trx : TRUE).id)
    /\ trx' = {}
    /\ pos' = pos + 1
    /\ pc' = "up_loop"
    /\ UNCHANGED <<activitySeq, migratedRecords, unmigratedRecords, clientWrites, uuidCalls, tableExists, comments, error, upRuns, downRuns, natives, original,
                   failedId, reconciled>>

\* trx('directus_comments').insert(...) throws, after randomUUID() was called: the
\* transaction rolls back, the rejection leaves the for loop, processChunk and up()
UpInsertFail ==
    /\ pc = "up_loop"
    /\ ~LoopFinished
    /\ uuidCalls' = uuidCalls + 1
    /\ trx' = {}
    /\ failedId' = RowAt(comments, pos).id
    /\ error' = "row"
    /\ pc' = "up_error"
    /\ UNCHANGED <<activitySeq, migratedRecords, unmigratedRecords, clientWrites, directus_activity, directus_comments, tableExists, comments, pos,
                   upRuns, downRuns, natives, original, reconciled>>

\* the failed row is skipped and the loop goes on
UpUpdateFailContinue ==
    /\ pc = "up_update"
    /\ trx' = {}
    /\ failedId' = RowAt(comments, pos).id
    /\ pos' = pos + 1
    /\ pc' = "up_loop"
    /\ UNCHANGED <<activitySeq, migratedRecords, unmigratedRecords, clientWrites, uuidCalls, directus_activity, directus_comments, tableExists, comments, error,
                   upRuns, downRuns, natives, original, reconciled>>

\* trx('directus_activity').update(...) or the commit throws: the transaction rolls back,
\* the rejection leaves the for loop, processChunk and up()
UpUpdateFail ==
    /\ pc = "up_update"
    /\ trx' = {}
    /\ failedId' = RowAt(comments, pos).id
    /\ error' = "row"
    /\ pc' = "up_error"
    /\ UNCHANGED <<activitySeq, migratedRecords, unmigratedRecords, clientWrites, uuidCalls, directus_activity, directus_comments, tableExists, comments, pos,
                   upRuns, downRuns, natives, original, reconciled>>

\* processChunk resolves and up() returns
UpReturn ==
    /\ pc = "up_loop"
    /\ LoopFinished
    /\ pc' = "up_done"
    /\ UNCHANGED <<activitySeq, migratedRecords, unmigratedRecords, clientWrites, uuidCalls, directus_activity, directus_comments, tableExists, comments, pos, trx,
                   error, upRuns, downRuns, natives, original, failedId, reconciled>>

\* the process is stopped while up() runs: an open transaction is rolled back
UpInterrupt ==
    /\ pc \in {"up_select", "up_loop", "up_update"}
    /\ trx' = {}
    /\ pc' = "up_interrupted"
    /\ UNCHANGED <<activitySeq, migratedRecords, unmigratedRecords, clientWrites, uuidCalls, directus_activity, directus_comments, tableExists, comments, pos, error,
                   upRuns, downRuns, natives, original, failedId, reconciled>>

(* ---------- the live application, between up() and down() ---------- *)

\* a comment is created through the application: a directus_comments row and, when the
\* creation is tracked, the activity row that records it
NativeComment ==
    /\ pc = "up_done"
    /\ Cardinality(directus_comments) < MaxRows
    /\ \E collection \in Collections, item \in Items, text \in Texts, user \in Users,
          time \in Times, tracked \in BOOLEAN :
          LET id == randomUUID(uuidCalls)
          IN /\ directus_comments' = directus_comments \cup
                   {[id |-> id, collection |-> collection, item |-> item, comment |-> text,
                     user_created |-> user, date_created |-> time]}
             /\ directus_activity' = directus_activity \cup
                   (IF tracked
                       THEN {[id |-> NextActivityId(activitySeq),
                              action |-> CREATE, collection |-> CommentsTable, item |-> id,
                              comment |-> NULL, user |-> user, timestamp |-> time]}
                       ELSE {})
             /\ activitySeq' = IF tracked THEN NextActivityId(activitySeq) ELSE activitySeq
             /\ natives' = natives \cup {id}
    /\ uuidCalls' = uuidCalls + 1
    /\ UNCHANGED <<migratedRecords, unmigratedRecords, clientWrites, tableExists, pc, comments, pos, trx, error, upRuns, downRuns, original,
                   failedId, reconciled>>

(* ---------- down() ---------- *)

\* .select('id','collection','item','comment','date_created','user_created')
\*   .from('directus_comments')
SelectComments(rows) ==
    {[id |-> c.id, collection |-> c.collection, item |-> c.item, comment |-> c.comment,
      date_created |-> c.date_created, user_created |-> c.user_created] : c \in rows}

\* the cross-reference search that forgets the item
FindMigratedAnyItem(activity, comment) ==
    {a.id : a \in {b \in activity : b.collection = CommentsTable /\ b.action = CREATE}}

\* ids matched by where collection = 'directus_comments' and item = comment.id
\* and action = CREATE
FindMigrated(activity, comment) ==
    {a.id : a \in {b \in activity :
        b.collection = CommentsTable /\ b.item = comment.id /\ b.action = CREATE}}

\* ids matched by where collection = comment.collection and item = comment.item
\* and action = COMMENT
FindUnmigrated(activity, comment) ==
    {a.id : a \in {b \in activity :
        b.collection = comment.collection /\ b.item = comment.item /\ b.action = COMMENT}}

\* directus_activity after .update({action, collection, item, comment}).where('id', '=', id)
UpdateToComment(activity, id, comment) ==
    {IF a.id = id
        THEN [a EXCEPT !.action = COMMENT, !.collection = comment.collection,
                       !.item = comment.item, !.comment = comment.comment]
        ELSE a : a \in activity}

\* directus_activity after .update({comment}).where('id', '=', id)
UpdateCommentText(activity, id, comment) ==
    {IF a.id = id THEN [a EXCEPT !.comment = comment.comment] ELSE a : a \in activity}

\* the inserted row without its attribution
InsertedActivityNoUser(id, comment) ==
    [id |-> id, action |-> COMMENT,
     collection |-> comment.collection, item |-> comment.item, comment |-> comment.comment,
     user |-> NULL, timestamp |-> comment.date_created]

\* the row knex('directus_activity').insert({...}) adds, under the id the database gives it
InsertedActivity(id, comment) ==
    [id |-> id, action |-> COMMENT,
     collection |-> comment.collection, item |-> comment.item, comment |-> comment.comment,
     user |-> comment.user_created, timestamp |-> comment.date_created]

\* the positions of down() inside one iteration of its loop
DownRunning ==
    pc \in {"down_loop", "down_update_migrated", "down_search_unmigrated",
            "down_update_unmigrated", "down_insert"}

\* the results of a search with .limit(1): no row, or one of the rows matched
LimitOne(ids) == IF ids = {} THEN {<<>>} ELSE {<<id>> : id \in ids}

\* down() is invoked after up(): the comment rows are read, in the order the database
\* returns them
DownSelect ==
    /\ pc = "up_done"
    /\ downRuns' = downRuns + 1
    /\ comments' \in Orderings(SelectComments(directus_comments))
    /\ pos' = 1
    /\ reconciled' = {}
    /\ pc' = "down_loop"
    /\ UNCHANGED <<activitySeq, directus_activity, directus_comments, tableExists, migratedRecords,
                   unmigratedRecords, trx, uuidCalls, error, upRuns, natives, original,
                   failedId, clientWrites>>

\* down() is invoked again after it was interrupted or threw
DownSelectAgain ==
    /\ pc \in {"down_interrupted", "down_error"}
    /\ downRuns <= MaxRetries
    /\ downRuns' = downRuns + 1
    /\ comments' \in Orderings(SelectComments(directus_comments))
    /\ pos' = 1
    /\ migratedRecords' = <<>>
    /\ unmigratedRecords' = <<>>
    /\ reconciled' = {}
    /\ pc' = "down_loop"
    /\ UNCHANGED <<activitySeq, directus_activity, directus_comments, tableExists, trx, uuidCalls, error,
                   upRuns, natives, original, failedId, clientWrites>>

\* const migratedRecords = await knex('directus_activity').select('id')...limit(1);
\* if (migratedRecords[0])
DownSearchMigrated ==
    /\ pc = "down_loop"
    /\ ~LoopFinished
    /\ migratedRecords' \in LimitOne(FindMigrated(directus_activity, RowAt(comments, pos)))
    /\ pc' = IF Len(migratedRecords') > 0 THEN "down_update_migrated"
                                         ELSE "down_search_unmigrated"
    /\ UNCHANGED <<activitySeq, directus_activity, directus_comments, tableExists, comments, pos,
                   unmigratedRecords, trx, uuidCalls, error, upRuns, downRuns, natives,
                   original, failedId, reconciled, clientWrites>>

\* branch (a): the row found is rewritten, where id = migratedRecords[0].id; continue
DownMigrated ==
    /\ pc = "down_update_migrated"
    /\ directus_activity' =
          UpdateToComment(directus_activity, migratedRecords[1], RowAt(comments, pos))
    /\ reconciled' = reconciled \cup {[id |-> RowAt(comments, pos).id, branch |-> "migrated"]}
    /\ migratedRecords' = <<>>
    /\ pos' = pos + 1
    /\ pc' = "down_loop"
    /\ UNCHANGED <<activitySeq, directus_comments, tableExists, comments, unmigratedRecords, trx,
                   uuidCalls, error, upRuns, downRuns, natives, original, failedId,
                   clientWrites>>

\* const unmigratedRecords = await knex('directus_activity').select('id')...limit(1);
\* if (unmigratedRecords[0])
DownSearchUnmigrated ==
    /\ pc = "down_search_unmigrated"
    /\ unmigratedRecords' \in
          LimitOne(FindUnmigrated(directus_activity, RowAt(comments, pos)))
    /\ pc' = IF Len(unmigratedRecords') > 0 THEN "down_update_unmigrated"
                                           ELSE "down_insert"
    /\ UNCHANGED <<activitySeq, directus_activity, directus_comments, tableExists, comments, pos,
                   migratedRecords, trx, uuidCalls, error, upRuns, downRuns, natives,
                   original, failedId, reconciled, clientWrites>>

\* branch (b): the comment of the row found is overwritten, where
\* id = unmigratedRecords[0].id; continue
DownUnmigrated ==
    /\ pc = "down_update_unmigrated"
    /\ directus_activity' =
          UpdateCommentText(directus_activity, unmigratedRecords[1], RowAt(comments, pos))
    /\ reconciled' =
          reconciled \cup {[id |-> RowAt(comments, pos).id, branch |-> "unmigrated"]}
    /\ unmigratedRecords' = <<>>
    /\ pos' = pos + 1
    /\ pc' = "down_loop"
    /\ UNCHANGED <<activitySeq, directus_comments, tableExists, comments, migratedRecords, trx,
                   uuidCalls, error, upRuns, downRuns, natives, original, failedId,
                   clientWrites>>

\* branch (c): neither search found a row; a new activity row is inserted
DownInsert ==
    /\ pc = "down_insert"
    /\ directus_activity' =
          directus_activity \cup
             {InsertedActivity(NextActivityId(activitySeq), RowAt(comments, pos))}
    /\ activitySeq' = NextActivityId(activitySeq)
    /\ reconciled' = reconciled \cup {[id |-> RowAt(comments, pos).id, branch |-> "inserted"]}
    /\ pos' = pos + 1
    /\ pc' = "down_loop"
    /\ UNCHANGED <<directus_comments, tableExists, comments, migratedRecords,
                   unmigratedRecords, trx, uuidCalls, error, upRuns, downRuns, natives,
                   original, failedId, clientWrites>>

\* a search or a write of the row throws: the rejection leaves the loop and down()
DownRowFail ==
    /\ DownRunning
    /\ ~LoopFinished
    /\ migratedRecords' = <<>>
    /\ unmigratedRecords' = <<>>
    /\ error' = "row"
    /\ pc' = "down_error"
    /\ UNCHANGED <<activitySeq, directus_activity, directus_comments, tableExists, comments, pos, trx,
                   uuidCalls, upRuns, downRuns, natives, original, failedId, reconciled,
                   clientWrites>>

\* the drop does not wait for the loop
DownDropTableEarly ==
    /\ DownRunning
    /\ directus_comments' = {}
    /\ tableExists' = FALSE
    /\ migratedRecords' = <<>>
    /\ unmigratedRecords' = <<>>
    /\ pc' = "down_done"
    /\ UNCHANGED <<activitySeq, directus_activity, comments, pos, trx, uuidCalls, error, upRuns,
                   downRuns, natives, original, failedId, reconciled, clientWrites>>

\* processChunk resolves; knex.schema.dropTable('directus_comments'); down() returns
DownDropTable ==
    /\ pc = "down_loop"
    /\ LoopFinished
    /\ directus_comments' = {}
    /\ tableExists' = FALSE
    /\ UNCHANGED <<migratedRecords, unmigratedRecords>>
    /\ pc' = "down_done"
    /\ UNCHANGED <<activitySeq, directus_activity, comments, pos, trx, uuidCalls, error, upRuns,
                   downRuns, natives, original, failedId, reconciled, clientWrites>>

\* the process is stopped while down() runs
DownInterrupt ==
    /\ DownRunning
    /\ migratedRecords' = <<>>
    /\ unmigratedRecords' = <<>>
    /\ pc' = "down_interrupted"
    /\ UNCHANGED <<activitySeq, directus_activity, directus_comments, tableExists, comments, pos, trx,
                   uuidCalls, error, upRuns, downRuns, natives, original, failedId,
                   reconciled, clientWrites>>

(* ---------- another client of the database, while down() runs ---------- *)

\* a second connection deletes an activity row between two statements of down()
ClientDeleteActivity ==
    /\ DownRunning
    /\ clientWrites < MaxClientWrites
    /\ clientWrites' = clientWrites + 1
    /\ \E a \in directus_activity : directus_activity' = directus_activity \ {a}
    /\ UNCHANGED <<activitySeq, directus_comments, tableExists, pc, comments, pos, migratedRecords,
                   unmigratedRecords, trx, uuidCalls, error, upRuns, downRuns, natives,
                   original, failedId, reconciled>>

\* a second connection inserts the cross-reference of a comment row between two
\* statements of down()
ClientInsertCrossReference ==
    /\ DownRunning
    /\ clientWrites < MaxClientWrites
    /\ clientWrites' = clientWrites + 1
    /\ \E c \in directus_comments :
          directus_activity' = directus_activity \cup
             {[id |-> NextActivityId(activitySeq), action |-> CREATE,
               collection |-> CommentsTable, item |-> c.id, comment |-> NULL,
               user |-> c.user_created, timestamp |-> c.date_created]}
    /\ activitySeq' = NextActivityId(activitySeq)
    /\ UNCHANGED <<directus_comments, tableExists, pc, comments, pos, migratedRecords,
                   unmigratedRecords, trx, uuidCalls, error, upRuns, downRuns, natives,
                   original, failedId, reconciled>>

(* ---------- the specification ---------- *)

\* a directus_activity row that carries a comment
CommentActivity ==
    [id : {0}, action : {COMMENT}, collection : Collections, item : Items, comment : Texts,
     user : Users, timestamp : Times]

\* a directus_activity row of another kind
OtherActivity ==
    [id : {0}, action : {CREATE}, collection : Collections, item : {"42"}, comment : {NULL},
     user : {"u1"}, timestamp : Times]

\* the tables with n activity rows, ids 1..n
ActivityTables(n) ==
    {{[rows[i] EXCEPT !.id = i] : i \in 1..n} :
        rows \in [1..n -> CommentActivity \cup OtherActivity]}

Init ==
    /\ \E n \in 0..MaxRows : directus_activity \in ActivityTables(n)
    /\ original = directus_activity
    /\ directus_comments = {}
    /\ tableExists = FALSE
    /\ pc = "idle"
    /\ comments = <<>>
    /\ pos = 1
    /\ trx = {}
    /\ uuidCalls = 0
    /\ error = "none"
    /\ upRuns = 0
    /\ downRuns = 0
    /\ natives = {}
    /\ failedId = 0
    /\ reconciled = {}
    /\ migratedRecords = <<>>
    /\ unmigratedRecords = <<>>
    /\ clientWrites = 0
    /\ activitySeq = Max(Ids(directus_activity) \cup {0})

Next ==
    \/ UpCreateTable
    \/ UpSelect
    \/ UpInsert
    \/ UpUpdate
    \/ UpInsertFail
    \/ UpUpdateFail
    \/ UpReturn
    \/ UpInterrupt
    \/ NativeComment
    \/ DownSelect
    \/ DownSearchMigrated
    \/ DownMigrated
    \/ DownSearchUnmigrated
    \/ DownUnmigrated
    \/ DownInsert
    \/ DownRowFail
    \/ DownDropTable
    \/ DownInterrupt

\* one run of up(), the application, one run of down()
Spec == Init /\ [][Next]_vars

NextRetry ==
    \/ Next
    \/ DownSelectAgain

\* the same, with down() invoked again after an interruption or an error
SpecRetry == Init /\ [][NextRetry]_vars

NextConcurrent ==
    \/ Next
    \/ ClientDeleteActivity
    \/ ClientInsertCrossReference

\* one run of up() and of down(), with another client writing while down() runs
SpecConcurrent == Init /\ [][NextConcurrent]_vars

(* ---------- the properties ---------- *)

\* the activity rows that carried a comment before up()
Eligible == {r \in original : r.comment # NULL}

\* activity row a is the cross-reference of comment row c
IsCrossReference(a, c) ==
    /\ a.action = CREATE
    /\ a.collection = CommentsTable
    /\ a.item = c.id
    /\ a.comment = NULL

\* comment row c holds what activity row r held
Copies(c, r) ==
    /\ c.collection = r.collection
    /\ c.item = r.item
    /\ c.comment = r.comment
    /\ c.user_created = r.user
    /\ c.date_created = r.timestamp

\* original row r is still embedded in directus_activity, untouched
Legacy(r) == r \in directus_activity

\* original row r is a cross-reference to a comment row that copies it
Migrated(r) ==
    \E a \in directus_activity :
        /\ a.id = r.id
        /\ a.user = r.user
        /\ a.timestamp = r.timestamp
        /\ \E c \in directus_comments : IsCrossReference(a, c) /\ Copies(c, r)

\* activity row a holds the comment of original row r again
Restores(a, r) ==
    /\ a.id = r.id
    /\ a.collection = r.collection
    /\ a.item = r.item
    /\ a.comment = r.comment
    /\ a.user = r.user
    /\ a.timestamp = r.timestamp

UpRunning == pc \in {"up_select", "up_loop", "up_update"}

\* C1: round trip. After one uninterrupted up() and one uninterrupted down(), with no
\* comment created in between, every original row that carried a comment is back under
\* its id with its collection, item, comment, user and timestamp, and down() inserted no
\* activity row.
C1_RoundTrip ==
    (pc = "down_done" /\ upRuns = 1 /\ downRuns = 1 /\ natives = {}) =>
        /\ \A r \in Eligible : \E a \in directus_activity : Restores(a, r)
        /\ Ids(directus_activity) = Ids(original)
        /\ \A d \in reconciled : d.branch = "migrated"

C1_Witness ==
    /\ pc = "down_done" /\ upRuns = 1 /\ downRuns = 1 /\ natives = {}
    /\ \E r1, r2 \in Eligible : r1.item = r2.item /\ r1.comment # r2.comment

\* C2: forward per-row transform. When up() has completed, every original row that
\* carried a comment is a cross-reference (action CREATE, collection directus_comments,
\* null comment) to exactly one comment row, which copies its collection, item, comment,
\* user and timestamp; distinct rows point at distinct comment rows.
C2_ForwardTransform ==
    (pc = "up_done") =>
        /\ \A r \in Eligible : \E a \in directus_activity :
              /\ a.id = r.id
              /\ a.action = CREATE /\ a.collection = CommentsTable /\ a.comment = NULL
              /\ Cardinality({c \in directus_comments : c.id = a.item}) = 1
              /\ \A c \in directus_comments : c.id = a.item => Copies(c, r)
        /\ \A a1, a2 \in directus_activity :
              (a1.id \in Ids(Eligible) /\ a2.id \in Ids(Eligible) /\ a1.id # a2.id)
                 => a1.item # a2.item

C2_Witness ==
    /\ pc = "up_done"
    /\ \E r1, r2 \in Eligible : r1.id # r2.id /\ r1.user # r2.user

\* C3: coherent representation. In every committed state while up() runs, after it
\* failed, was interrupted or completed, every original comment is either LEGACY or
\* MIGRATED, never both; every comment row has exactly one cross-reference and every
\* cross-reference has its comment row.
C3_CoherentRepresentation ==
    (pc \in {"idle", "up_select", "up_loop", "up_update", "up_error", "up_interrupted"}
        \/ (pc = "up_done" /\ natives = {})) =>
        /\ \A r \in Eligible : Legacy(r) # Migrated(r)
        /\ \A c \in directus_comments :
              Cardinality({a \in directus_activity : IsCrossReference(a, c)}) = 1
        /\ \A a \in directus_activity :
              a.collection = CommentsTable =>
                 \E c \in directus_comments : IsCrossReference(a, c)
        /\ Cardinality(directus_comments) = Cardinality({r \in Eligible : Migrated(r)})

C3_Witness ==
    /\ pc = "up_update"
    /\ trx # {}
    /\ \E r \in Eligible : Migrated(r)
    /\ \E r \in Eligible : Legacy(r)

\* C4: forward resumability. When up() is invoked again after an interruption that
\* followed a committed row transaction (no row transaction has failed) and has ended,
\* it has completed and every original comment is migrated exactly once.
C4_ForwardResumable ==
    (upRuns >= 2 /\ failedId = 0 /\ directus_comments # {}
        /\ pc \in {"up_done", "up_error"}) =>
        /\ pc = "up_done"
        /\ \A r \in Eligible : Migrated(r)
        /\ Cardinality(directus_comments) = Cardinality(Eligible)

\* C5: drop after reconcile. The table is gone only when down() has reconciled every
\* comment row it read; when down() has ended with an error or was interrupted, the
\* table and the rows it read are still there.
C5_DropAfterReconcile ==
    /\ (downRuns > 0 /\ ~tableExists) =>
          /\ pc = "down_done"
          /\ {d.id : d \in reconciled} = Ids(Range(comments))
    /\ (pc \in {"down_error", "down_interrupted"}) =>
          /\ tableExists
          /\ Range(comments) = SelectComments(directus_comments)

C5_Witness ==
    /\ pc = "down_done"
    /\ ~tableExists
    /\ Len(comments) >= 2

\* C6: reverse retry consistency. When down() was interrupted (nothing threw), invoked
\* again and has completed, and no comment was created by the application,
\* directus_activity holds what the uninterrupted down() produces: every original
\* comment under its id, and no additional row.
C6_ReverseRetryConsistent ==
    (pc = "down_done" /\ downRuns >= 2 /\ error = "none" /\ natives = {}) =>
        /\ \A r \in Eligible : \E a \in directus_activity : Restores(a, r)
        /\ Ids(directus_activity) = Ids(original)

\* C7: no duplication in the fallback branch. A step of down() on a comment row that
\* has neither a cross-reference nor an activity row of its collection and item with
\* action COMMENT adds exactly one activity row (action COMMENT, the comment's
\* collection, item and comment, user = user_created, timestamp = date_created) and
\* leaves every existing activity row as it was.
C7_FallbackInsertsOne ==
    [][(/\ DownRunning
        /\ ~LoopFinished
        /\ pos' = pos + 1
        /\ FindMigrated(directus_activity, RowAt(comments, pos)) = {}
        /\ FindUnmigrated(directus_activity, RowAt(comments, pos)) = {})
       => (/\ directus_activity \subseteq directus_activity'
           /\ Cardinality(directus_activity' \ directus_activity) = 1
           /\ \A a \in directus_activity' \ directus_activity :
                 /\ a.id \notin Ids(directus_activity)
                 /\ a.action = COMMENT
                 /\ a.collection = RowAt(comments, pos).collection
                 /\ a.item = RowAt(comments, pos).item
                 /\ a.comment = RowAt(comments, pos).comment
                 /\ a.user = RowAt(comments, pos).user_created
                 /\ a.timestamp = RowAt(comments, pos).date_created)]_vars

C7_Witness ==
    /\ pc = "down_loop"
    /\ \E d \in reconciled : d.branch = "inserted" /\ d.id \in natives
    /\ \E a \in directus_activity : a.id \notin Ids(original) /\ a.action = COMMENT

\* C8: source exclusion. When up() has completed, every row whose comment was null is
\* unchanged and the number of comment rows equals the number of rows that carried a
\* comment.
C8_SourceExclusion ==
    (pc = "up_done" /\ natives = {}) =>
        /\ \A r \in original : r.comment = NULL => r \in directus_activity
        /\ Cardinality(directus_comments) = Cardinality(Eligible)
        /\ \A c \in directus_comments : \E r \in Eligible : Copies(c, r)

C8_Witness ==
    /\ pc = "up_done" /\ natives = {}
    /\ \E r \in original : r.comment = NULL
    /\ \E r \in original : r.comment # NULL

\* C9: row-failure isolation. Once the transaction of a row has failed in up(), up() has
\* ended with an error, nothing of that transaction is committed, every original comment
\* with a smaller id is MIGRATED, and that row and every one after it are LEGACY.
C9_RowFailureIsolation ==
    (failedId # 0) =>
        /\ pc = "up_error"
        /\ trx = {}
        /\ \A r \in Eligible : r.id < failedId => Migrated(r)
        /\ \A r \in Eligible : r.id >= failedId => Legacy(r)
        /\ Cardinality(directus_comments) = Cardinality({r \in Eligible : r.id < failedId})

C9_Witness ==
    /\ failedId # 0
    /\ \E r \in Eligible : r.id < failedId /\ Migrated(r)
    /\ uuidCalls > Cardinality(directus_comments)

\* C10: no comment is lost by down(). When one uninterrupted down() has completed, the
\* comment rows it read can be matched one to one with activity rows of action COMMENT
\* that hold their collection, item and comment.
C10_NoCommentLost ==
    (pc = "down_done" /\ downRuns = 1) =>
        \E f \in [Range(comments) -> directus_activity] :
            /\ \A c1, c2 \in Range(comments) : c1 # c2 => f[c1] # f[c2]
            /\ \A c \in Range(comments) :
                  /\ f[c].action = COMMENT
                  /\ f[c].collection = c.collection
                  /\ f[c].item = c.item
                  /\ f[c].comment = c.comment

====
